---- MODULE Spec2Model ----
(***************************************************************************)
(* Model of the ANN class of Controllers/ANN/src/ann.{h,cpp}: a network of *)
(* neurons and weighted connections with construction, fully-connected     *)
(* generation, weight randomisation, input binding, activation and a text  *)
(* persistence codec.                                                      *)
(*                                                                         *)
(* Numbers.  A C++ double is modelled as a decimal fixed-point number with *)
(* six fractional digits: the integer v stands for v / One.  Arithmetic    *)
(* results are rounded down to that grid (the model's stand-in for         *)
(* rounding to the nearest representable double).  The unsigned short      *)
(* fields keep their width: every store into one is taken modulo 2^16.     *)
(*                                                                         *)
(* Undefined behaviour.  An out-of-bounds element read yields an arbitrary *)
(* value (one of GarbageVals); an out-of-bounds element write either lands *)
(* in slack memory without visible effect or ends the process              *)
(* (pc = "crashed"); an uninitialised object field or local holds an       *)
(* arbitrary value.                                                        *)
(***************************************************************************)
EXTENDS Integers, Sequences, FiniteSets, TLC

\* ------------------------------------------------------------------------
\* Number model
\* ------------------------------------------------------------------------

\* 1.0 on the fixed-point grid of doubles
One == 1000000

\* width of the unsigned short int fields
U16 == 65536

ToU16(x) == x % U16

Abs(x) == IF x < 0 THEN -x ELSE x

Max2(a, b) == IF a > b THEN a ELSE b

\* a * b on the grid: floor(a * b / One), formed from the halves of a and b
\* (Half * Half = One) so that no intermediate product leaves 32 bits
MulFix(a, b) ==
    LET Half == 1000
        a1 == a \div Half
        a0 == a % Half
        b1 == b \div Half
        b0 == b % Half
    IN  a1 * b1 + ((a1 * b0 + a0 * b1 + ((a0 * b0) \div Half)) \div Half)

\* 1 / (1 + exp(-k)) at the integers k = -15 .. 16, on the grid
SigTable ==
    <<0, 1, 2, 6, 17, 45, 123, 335, 911, 2473, 6693, 17986, 47426, 119203,
      268941, 500000, 731059, 880797, 952574, 982014, 993307, 997527, 999089,
      999665, 999877, 999955, 999983, 999994, 999998, 999999, 1000000,
      1000000>>

\* the logistic function between the guards: exp is not available, so the
\* curve is the table above joined by straight lines
Logistic(x) ==
    LET k == x \div One
        f == x % One
        lo == SigTable[k + 16]
        hi == SigTable[k + 17]
    IN  lo + MulFix(hi - lo, f)

sigmoid_AF(x) ==
    IF x < -15 * One THEN 0
    ELSE IF x > 15 * One THEN One
    ELSE Logistic(x)

\* ------------------------------------------------------------------------
\* Text formatting of doubles
\* ------------------------------------------------------------------------

\* significant digits written by operator<< for a double (the stream's
\* default precision, never changed by serialize)
StreamPrecision == 6

RECURSIVE NumDigits(_)
NumDigits(a) == IF a < 10 THEN 1 ELSE 1 + NumDigits(a \div 10)

RECURSIVE Pow10(_)
Pow10(n) == IF n <= 0 THEN 1 ELSE 10 * Pow10(n - 1)

\* out_file << weight: the decimal text keeps StreamPrecision significant
\* digits (ties away from zero); the result is the value of that text, which
\* in_file >> w reads back exactly
FormatDouble(w) ==
    LET a == Abs(w)
        d == NumDigits(a)
        u == Pow10(d - StreamPrecision)
        r == ((a + (u \div 2)) \div u) * u
    IN  IF d <= StreamPrecision THEN w ELSE IF w < 0 THEN -r ELSE r

\* ------------------------------------------------------------------------
\* Data model (ann.h)
\* ------------------------------------------------------------------------

INPUT_N == 0

OUTPUT_N == 1

HIDDEN_N == 2

Neuron(ntype) == [input_sum |-> 0, output |-> 0, type |-> ntype]

Connection(source, target, w) ==
    [source_neuron_idx |-> ToU16(source), target_neuron_idx |-> ToU16(target),
     weight |-> w, data |-> 0]

VARIABLES
    pc,                     \* "start", "ready", "exited" (exit(EXIT_FAILURE)),
                            \* "crashed" (undefined behaviour ended the process)
    num_input, num_hidden, num_output, num_iPLUSh, total_num_neurons,
    neurons,                \* std::vector<Neuron>; index n is neurons[n + 1]
    total_num_connections,
    connections,            \* std::vector<Connection>
    files,                  \* the file system: path -> [open, toks]
    lastOp,                 \* the call that ran last: its name, return value
                            \* and arguments, and the name of the call before
    saved,                  \* the network as it was when file "net" was written
    steps                   \* number of calls made so far

counts == <<num_input, num_hidden, num_output, num_iPLUSh, total_num_neurons>>

net == <<num_input, num_hidden, num_output, num_iPLUSh, total_num_neurons,
         neurons, total_num_connections, connections>>

vars == <<pc, num_input, num_hidden, num_output, num_iPLUSh, total_num_neurons,
          neurons, total_num_connections, connections, files, lastOp, saved,
          steps>>

\* ------------------------------------------------------------------------
\* Bounds and inputs
\* ------------------------------------------------------------------------

\* calls explored per run of the process
MaxSteps == 4

\* rand() returns 0 .. RandMax
RandMax == 2

\* num_neurons vectors handed to the constructor
CountsSet ==
    { <<1, 1>>, <<2, 1, 1>>, <<65534, 3, 3>>, <<65535, 0, 2>>, <<1>> }

\* (c_src, c_trg, c_wts) triples handed to the constructor
EdgeSet ==
    { [src |-> << >>, trg |-> << >>, wts |-> << >>],
      [src |-> <<0>>, trg |-> <<1>>, wts |-> <<One>>],
      [src |-> <<0, 2>>, trg |-> <<2, 3>>, wts |-> <<One, 1234567>>],
      [src |-> <<1>>, trg |-> <<2>>, wts |-> <<-2 * One>>],
      [src |-> <<1>>, trg |-> <<1>>, wts |-> <<One>>],
      [src |-> <<0>>, trg |-> << >>, wts |-> << >>],
      [src |-> <<-1>>, trg |-> <<0>>, wts |-> <<One>>] }

\* (min, max) pairs handed to randomizeW; the first is the default variant
MinMaxSet == { <<-One, One>>, <<One, 2 * One>>, <<One, One>> }

\* vectors handed to setInput
InputSet == { << >>, <<0>>, <<One>>, <<One, 2 * One>> }

\* what an out-of-bounds read of a double may yield
GarbageVals == { 0, One }

\* what the uninitialised locals ntype, src, trg, w of deserialize may hold
GarbageLocals ==
    { [ntype |-> 0, src |-> 0, trg |-> 0, w |-> 0],
      [ntype |-> 2, src |-> 1, trg |-> 1, w |-> One] }

\* what the uninitialised count fields of a fresh ANN object may hold
GarbageCounts ==
    { [num_input |-> 0, num_hidden |-> 0, num_output |-> 0, num_iPLUSh |-> 0,
       total_num_neurons |-> 0, total_num_connections |-> 0],
      [num_input |-> 1, num_hidden |-> 0, num_output |-> 0, num_iPLUSh |-> 1,
       total_num_neurons |-> 1, total_num_connections |-> 0] }

\* contents of the file "ext", written by somebody else: one with a header
\* whose counts disagree and an edge to a neuron that does not exist, one
\* that ends inside the neuron types
ExtFiles ==
    { <<1, 0, 1, 0, 3, 0, 1, 1, 1, 0, 3, One>>,
      <<1, 1, 1, 2, 3, 0, 2>> }

ReadPaths == { "net", "ext", "nodir" }

WritePaths == { "net", "nodir" }


\* ------------------------------------------------------------------------
\* State after process start: no network yet; file "net" does not exist,
\* file "ext" holds foreign content, path "nodir" can never be opened
\* ------------------------------------------------------------------------

Snapshot(taken) ==
    [taken |-> taken, counts |-> counts, neurons |-> neurons,
     total_num_connections |-> total_num_connections,
     connections |-> connections]

NoSnapshot ==
    [taken |-> FALSE, counts |-> <<0, 0, 0, 0, 0>>, neurons |-> << >>,
     total_num_connections |-> 0, connections |-> << >>]

Init ==
    /\ pc = "start"
    /\ num_input = 0 /\ num_hidden = 0 /\ num_output = 0
    /\ num_iPLUSh = 0 /\ total_num_neurons = 0
    /\ neurons = << >>
    /\ total_num_connections = 0
    /\ connections = << >>
    /\ \E f \in ExtFiles :
          files = [net |-> [open |-> FALSE, toks |-> << >>],
                   ext |-> [open |-> TRUE, toks |-> f]]
    /\ lastOp = [op |-> "none", rc |-> 0, arg |-> << >>, path |-> "",
                 prev |-> "none"]
    /\ saved = NoSnapshot
    /\ steps = 0

\* the process is over (exit or crash): no network is left
Gone(how, op) ==
    /\ pc' = how
    /\ num_input' = 0 /\ num_hidden' = 0 /\ num_output' = 0
    /\ num_iPLUSh' = 0 /\ total_num_neurons' = 0
    /\ neurons' = << >>
    /\ total_num_connections' = 0
    /\ connections' = << >>
    /\ lastOp' = [op |-> op, rc |-> -1, arg |-> << >>, path |-> "",
                  prev |-> lastOp.op]
    /\ steps' = steps + 1

Called(op, rc, arg, path) ==
    /\ lastOp' = [op |-> op, rc |-> rc, arg |-> arg, path |-> path,
                  prev |-> lastOp.op]
    /\ steps' = steps + 1

Alive == pc \in {"start", "ready"} /\ steps < MaxSteps

\* ------------------------------------------------------------------------
\* ANN::ANN(num_neurons, c_src, c_trg, c_wts)
\* ------------------------------------------------------------------------

\* the index test of the constructor's connection loop
IndexRejected(idx, total) == idx < 0 \/ idx > total

\* neuron type by index
TypeOfIndex(n, nin, niph) ==
    IF n < nin THEN INPUT_N ELSE IF n < niph THEN HIDDEN_N ELSE OUTPUT_N

Construct(num_neurons, c_src, c_trg, c_wts) ==
    /\ Alive
    /\ UNCHANGED <<files, saved>>
    /\ IF ~(Len(num_neurons) = 2 \/ Len(num_neurons) = 3)
       THEN Gone("exited", "construct")
       ELSE IF Len(c_src) # Len(c_trg) \/ Len(c_src) # Len(c_wts)
                 \/ Len(c_trg) # Len(c_wts)
       THEN Gone("exited", "construct")
       ELSE
         LET nin  == ToU16(num_neurons[1])
             nhid == ToU16(IF Len(num_neurons) = 2 THEN 0 ELSE num_neurons[2])
             nout == ToU16(IF Len(num_neurons) = 2 THEN num_neurons[2]
                                                   ELSE num_neurons[3])
             niph == ToU16(nin + nhid)
             tot  == ToU16(niph + nout)
             tnc  == ToU16(Len(c_src))
         IN  IF \E c \in 1..tnc : \/ IndexRejected(c_src[c], tot)
                                  \/ IndexRejected(c_trg[c], tot)
             THEN Gone("exited", "construct")
             ELSE
               /\ pc' = "ready"
               /\ num_input' = nin /\ num_hidden' = nhid /\ num_output' = nout
               /\ num_iPLUSh' = niph /\ total_num_neurons' = tot
               /\ total_num_connections' = tnc
               /\ neurons' = [n \in 1..tot |->
                                 Neuron(TypeOfIndex(n - 1, nin, niph))]
               /\ connections' = [c \in 1..tnc |->
                                     Connection(c_src[c], c_trg[c], c_wts[c])]
               /\ Called("construct", 0, << >>, "")

\* ------------------------------------------------------------------------
\* ANN::fullyConnectFF
\* ------------------------------------------------------------------------

\* FullyConnected without the clear() of the old connections
FullyConnectedKeepOld(nin, niph, tot) ==
    LET nh == Max2(0, niph - nin)
        no == Max2(0, tot - niph)
        ih == [k \in 1..(nin * nh) |->
                  Connection((k - 1) \div nh, nin + ((k - 1) % nh), 0)]
        ho == [k \in 1..(nh * no) |->
                  Connection(nin + ((k - 1) \div no), niph + ((k - 1) % no), 0)]
    IN  connections \o ih \o ho

\* the connections pushed by the two nested loops, in push order
FullyConnected(nin, niph, tot) ==
    LET nh == Max2(0, niph - nin)
        no == Max2(0, tot - niph)
        ih == [k \in 1..(nin * nh) |->
                  Connection((k - 1) \div nh, nin + ((k - 1) % nh), 0)]
        ho == [k \in 1..(nh * no) |->
                  Connection(nin + ((k - 1) \div no), niph + ((k - 1) % no), 0)]
    IN  ih \o ho

\* the count recorded before the loops run
FullyConnectedCount(nin, nhid, nout) == ToU16(nhid * (nin + nout))

FullyConnectFF ==
    /\ Alive /\ pc = "ready"
    /\ total_num_connections' =
          FullyConnectedCount(num_input, num_hidden, num_output)
    /\ connections' = FullyConnected(num_input, num_iPLUSh, total_num_neurons)
    /\ Called("fullyConnectFF", 0, << >>, "")
    /\ UNCHANGED <<pc, num_input, num_hidden, num_output, num_iPLUSh,
                   total_num_neurons, neurons, files, saved>>

\* ------------------------------------------------------------------------
\* ANN::randomizeW(min, max)
\* ------------------------------------------------------------------------

\* RandomWeight with the width of the range taken as max + min
RandomWeightSum(min, max, r) == (((max + min) * r) \div RandMax) + min

\* the weight computed from one value r of rand()
RandomWeight(min, max, r) == (((max - min) * r) \div RandMax) + min

\* BadRange that lets min = max through
BadRangeStrict(min, max) == min > max

\* the argument test of randomizeW
BadRange(min, max) == min >= max

RandomizeW(min, max) ==
    /\ Alive /\ pc = "ready"
    /\ IF BadRange(min, max)
       THEN /\ Called("randomizeW", -1, <<min, max>>, "")
            /\ UNCHANGED connections
       ELSE /\ \E r \in [1..Len(connections) -> 0..RandMax] :
                  connections' =
                     [c \in 1..Len(connections) |->
                         [connections[c] EXCEPT
                             !.weight = RandomWeight(min, max, r[c])]]
            /\ Called("randomizeW", 0, <<min, max>>, "")
    /\ UNCHANGED <<pc, num_input, num_hidden, num_output, num_iPLUSh,
                   total_num_neurons, neurons, total_num_connections, files,
                   saved>>

\* ------------------------------------------------------------------------
\* ANN::setInput
\* ------------------------------------------------------------------------

\* the neuron vector after the assignment loop; a write past the end of the
\* vector is not in it
InputsBound(ns, nin, inputs) ==
    [n \in 1..Len(ns) |->
        IF n <= nin THEN [ns[n] EXCEPT !.output = inputs[n]] ELSE ns[n]]

SetInput(inputs) ==
    /\ Alive /\ pc = "ready"
    /\ UNCHANGED <<files, saved>>
    /\ IF Len(inputs) # num_input
       THEN /\ Called("setInput", -1, inputs, "")
            /\ UNCHANGED <<pc, net>>
       ELSE \E crash \in BOOLEAN :
              IF num_input > Len(neurons) /\ crash
              THEN Gone("crashed", "setInput")
              ELSE /\ neurons' = InputsBound(neurons, num_input, inputs)
                   /\ Called("setInput", 0, inputs, "")
                   /\ UNCHANGED <<pc, num_input, num_hidden, num_output,
                                  num_iPLUSh, total_num_neurons,
                                  total_num_connections, connections>>

\* ------------------------------------------------------------------------
\* ANN::getOutput
\* ------------------------------------------------------------------------

GetOutputOf(ns, niph, tot) ==
    [k \in 1..Max2(0, tot - niph) |-> ns[niph + k].output]

GetOutput == GetOutputOf(neurons, num_iPLUSh, total_num_neurons)

\* ------------------------------------------------------------------------
\* ANN::activate
\* ------------------------------------------------------------------------

\* source->output as read by the first loop; g is what a read past the end
\* of the neuron vector yields
SourceOutput(ns, conn, g) ==
    IF conn.source_neuron_idx < Len(ns)
    THEN ns[conn.source_neuron_idx + 1].output
    ELSE g

\* Transmit that feeds the target's output instead of the source's
TransmitFromTarget(cs, ns, g) ==
    [c \in 1..Len(cs) |->
        [cs[c] EXCEPT !.data =
            MulFix(cs[c].weight,
                   IF cs[c].target_neuron_idx < Len(ns)
                   THEN ns[cs[c].target_neuron_idx + 1].output ELSE g)]]

\* the connection vector after the first loop
Transmit(cs, ns, g) ==
    [c \in 1..Len(cs) |->
        [cs[c] EXCEPT !.data = MulFix(cs[c].weight, SourceOutput(ns, cs[c], g))]]

\* what the first k connections add to the input_sum of neuron n
RECURSIVE Fed(_, _, _)
Fed(cs, n, k) ==
    IF k = 0 THEN 0
    ELSE Fed(cs, n, k - 1)
         + (IF cs[k].target_neuron_idx = n THEN cs[k].data ELSE 0)

\* Fire that resets the input_sum of every neuron, Input neurons included
FireResetAll(ns, cs, nin, tot) ==
    [n \in 1..Len(ns) |->
        LET sum == ns[n].input_sum + Fed(cs, n - 1, Len(cs))
        IN  IF n - 1 >= nin /\ n - 1 < tot
            THEN [ns[n] EXCEPT !.output = sigmoid_AF(sum), !.input_sum = 0]
            ELSE [ns[n] EXCEPT !.input_sum = 0]]

\* Fire without the reset of input_sum
FireNoReset(ns, cs, nin, tot) ==
    [n \in 1..Len(ns) |->
        LET sum == ns[n].input_sum + Fed(cs, n - 1, Len(cs))
        IN  IF n - 1 >= nin /\ n - 1 < tot
            THEN [ns[n] EXCEPT !.output = sigmoid_AF(sum), !.input_sum = sum]
            ELSE [ns[n] EXCEPT !.input_sum = sum]]

\* the neuron vector after both loops; cs is the connection vector after the
\* first loop
Fire(ns, cs, nin, tot) ==
    [n \in 1..Len(ns) |->
        LET sum == ns[n].input_sum + Fed(cs, n - 1, Len(cs))
        IN  IF n - 1 >= nin /\ n - 1 < tot
            THEN [ns[n] EXCEPT !.output = sigmoid_AF(sum), !.input_sum = 0]
            ELSE [ns[n] EXCEPT !.input_sum = sum]]

\* the call touches an element past the end of the neuron vector
ActivateOutOfBounds ==
    \/ \E c \in 1..Len(connections) :
          \/ connections[c].source_neuron_idx >= Len(neurons)
          \/ connections[c].target_neuron_idx >= Len(neurons)
    \/ /\ total_num_neurons > Len(neurons)
       /\ num_input < total_num_neurons

Activate ==
    /\ Alive /\ pc = "ready"
    /\ UNCHANGED <<files, saved>>
    /\ \E g \in GarbageVals, crash \in BOOLEAN :
          IF ActivateOutOfBounds /\ crash
          THEN Gone("crashed", "activate")
          ELSE /\ connections' = Transmit(connections, neurons, g)
               /\ neurons' = Fire(neurons, connections', num_input,
                                  total_num_neurons)
               /\ Called("activate", 0, << >>, "")
               /\ UNCHANGED <<pc, num_input, num_hidden, num_output,
                              num_iPLUSh, total_num_neurons,
                              total_num_connections>>

\* ------------------------------------------------------------------------
\* ANN::serialize
\* ------------------------------------------------------------------------

\* ConnectionTokens writing the target before the source
RECURSIVE ConnectionTokensSwapped(_, _)
ConnectionTokensSwapped(cs, k) ==
    IF k = 0 THEN << >>
    ELSE ConnectionTokensSwapped(cs, k - 1)
         \o <<cs[k].target_neuron_idx, cs[k].source_neuron_idx,
              FormatDouble(cs[k].weight)>>

RECURSIVE ConnectionTokens(_, _)
ConnectionTokens(cs, k) ==
    IF k = 0 THEN << >>
    ELSE ConnectionTokens(cs, k - 1)
         \o <<cs[k].source_neuron_idx, cs[k].target_neuron_idx,
              FormatDouble(cs[k].weight)>>

\* the numbers written to the file, in order
SerializeTokens ==
    counts
    \o [n \in 1..Len(neurons) |-> neurons[n].type]
    \o <<total_num_connections>>
    \o ConnectionTokens(connections, Len(connections))

CanOpen(path) == path \in DOMAIN files /\ files[path].open

CanCreate(path) == path \in DOMAIN files

Serialize(path) ==
    /\ Alive /\ pc = "ready"
    /\ UNCHANGED <<pc, net>>
    /\ IF ~CanCreate(path)
       THEN /\ Called("serialize", -1, << >>, path)
            /\ UNCHANGED <<files, saved>>
       ELSE /\ files' = [files EXCEPT
                            ![path] = [open |-> TRUE, toks |-> SerializeTokens]]
            /\ saved' = Snapshot(TRUE)
            /\ Called("serialize", 0, << >>, path)

\* ------------------------------------------------------------------------
\* ANN::deserialize and ANN::ANN(fname)
\* ------------------------------------------------------------------------

\* in_file >> x at token position pos: a read at or after the end of the
\* file fails and leaves x as it was.  Every token of the files modelled is
\* a number in the range of the variable it is read into.
Extract(toks, pos, old) == IF pos <= Len(toks) THEN toks[pos] ELSE old

RECURSIVE ReadTypes(_, _, _, _, _)
ReadTypes(toks, pos, n, ntype, acc) ==
    IF n = 0 THEN acc
    ELSE LET t == Extract(toks, pos, ntype)
         IN  ReadTypes(toks, pos + 1, n - 1, t, Append(acc, Neuron(t)))

RECURSIVE ReadConnections(_, _, _, _, _)
ReadConnections(toks, pos, n, loc, acc) ==
    IF n = 0 THEN acc
    ELSE LET src == Extract(toks, pos, loc.src)
             trg == Extract(toks, pos + 1, loc.trg)
             w   == Extract(toks, pos + 2, loc.w)
         IN  ReadConnections(toks, pos + 3, n - 1,
                             [loc EXCEPT !.src = src, !.trg = trg, !.w = w],
                             Append(acc, Connection(src, trg, w)))

\* the object after the reads; old holds the count fields before the call,
\* loc the initial content of the locals ntype, src, trg, w
ReadNetwork(old, toks, loc) ==
    LET nin  == Extract(toks, 1, old.num_input)
        nhid == Extract(toks, 2, old.num_hidden)
        nout == Extract(toks, 3, old.num_output)
        niph == Extract(toks, 4, old.num_iPLUSh)
        tot  == Extract(toks, 5, old.total_num_neurons)
        tnc  == Extract(toks, 6 + tot, old.total_num_connections)
    IN  [num_input |-> nin, num_hidden |-> nhid, num_output |-> nout,
         num_iPLUSh |-> niph, total_num_neurons |-> tot,
         neurons |-> ReadTypes(toks, 6, tot, loc.ntype, << >>),
         total_num_connections |-> tnc,
         connections |-> ReadConnections(toks, 7 + tot, tnc, loc, << >>)]

CountFields ==
    [num_input |-> num_input, num_hidden |-> num_hidden,
     num_output |-> num_output, num_iPLUSh |-> num_iPLUSh,
     total_num_neurons |-> total_num_neurons,
     total_num_connections |-> total_num_connections]

Install(r) ==
    /\ num_input' = r.num_input /\ num_hidden' = r.num_hidden
    /\ num_output' = r.num_output /\ num_iPLUSh' = r.num_iPLUSh
    /\ total_num_neurons' = r.total_num_neurons
    /\ neurons' = r.neurons
    /\ total_num_connections' = r.total_num_connections
    /\ connections' = r.connections

Deserialize(path) ==
    /\ Alive /\ pc = "ready"
    /\ UNCHANGED <<pc, files, saved>>
    /\ IF ~CanOpen(path)
       THEN /\ Called("deserialize", -1, << >>, path)
            /\ UNCHANGED net
       ELSE /\ \E loc \in GarbageLocals :
                  Install(ReadNetwork(CountFields, files[path].toks, loc))
            /\ Called("deserialize", 0, << >>, path)

\* a new object whose fields are set by deserialize alone: when the file
\* cannot be opened the vectors are empty and the counts were never set
ConstructFromFile(path) ==
    /\ Alive
    /\ pc' = "ready"
    /\ UNCHANGED <<files, saved>>
    /\ Called("constructFromFile", 0, << >>, path)
    /\ \E fresh \in GarbageCounts :
          IF ~CanOpen(path)
          THEN Install(fresh @@ [neurons |-> << >>, connections |-> << >>])
          ELSE \E loc \in GarbageLocals :
                  Install(ReadNetwork(fresh, files[path].toks, loc))

\* ------------------------------------------------------------------------
\* The process: any call on the one network handle, any arguments
\* ------------------------------------------------------------------------

Next ==
    \/ \E nn \in CountsSet, e \in EdgeSet : Construct(nn, e.src, e.trg, e.wts)
    \/ \E path \in ReadPaths : ConstructFromFile(path)
    \/ FullyConnectFF
    \/ \E mm \in MinMaxSet : RandomizeW(mm[1], mm[2])
    \/ \E inputs \in InputSet : SetInput(inputs)
    \/ Activate
    \/ \E path \in WritePaths : Serialize(path)
    \/ \E path \in ReadPaths : Deserialize(path)

Spec == Init /\ [][Next]_vars

\* ------------------------------------------------------------------------
\* Vocabulary of the claims
\* ------------------------------------------------------------------------

\* index i names an existing neuron of the given layer
IsInput(i) == i < num_input /\ i < Len(neurons)

IsHidden(i) == num_input <= i /\ i < num_iPLUSh /\ i < Len(neurons)

IsOutput(i) ==
    num_iPLUSh <= i /\ num_input <= i /\ i < total_num_neurons
    /\ i < Len(neurons)

\* strictly feedforward, no recurrent edge: every connection runs from an
\* Input neuron to a Hidden or Output neuron, or from a Hidden neuron to an
\* Output neuron
Feedforward ==
    \A c \in 1..Len(connections) :
       LET s == connections[c].source_neuron_idx
           t == connections[c].target_neuron_idx
       IN  \/ IsInput(s) /\ (IsHidden(t) \/ IsOutput(t))
           \/ IsHidden(s) /\ IsOutput(t)

\* feedforward with no Hidden neuron on any path: every connection runs
\* from an Input neuron to a Hidden or Output neuron
InputFed ==
    \A c \in 1..Len(connections) :
       /\ IsInput(connections[c].source_neuron_idx)
       /\ \/ IsHidden(connections[c].target_neuron_idx)
          \/ IsOutput(connections[c].target_neuron_idx)

\* this step is an Activate call that returned, made right after another
\* Activate call that returned
SecondActivate ==
    /\ pc = "ready" /\ lastOp.op = "activate"
    /\ pc' = "ready" /\ lastOp'.op = "activate" /\ steps' = steps + 1

\* C1 (as claimed): on a strictly feedforward network, hidden layer or not,
\* a second Activate in a row leaves GetOutput as the first Activate left it.
C1_RepeatSameOutput ==
    [][SecondActivate /\ Feedforward => GetOutput' = GetOutput]_vars

\* C1 (amended): on a network whose connections all run from an Input neuron
\* to a Hidden or Output neuron, a second Activate in a row leaves GetOutput
\* as the first Activate left it.
C1_InputFedRepeatSameOutput ==
    [][SecondActivate /\ InputFed => GetOutput' = GetOutput]_vars

\* two Activate calls in a row have run on an input-fed network with a
\* connection, and the output they left is not the output of an idle neuron
C1_Witness ==
    /\ pc = "ready" /\ lastOp.op = "activate" /\ lastOp.prev = "activate"
    /\ InputFed /\ connections # << >>
    /\ \E k \in 1..Len(GetOutput) : GetOutput[k] \notin {0, One \div 2}

\* C2 (as claimed): the constructor leaves a network only if every
\* connection's source and target index is below total_num_neurons (stated
\* here for the networks whose counts add up).
C2_ConstructIndicesInRange ==
    (/\ pc = "ready" /\ lastOp.op = "construct"
     /\ num_input + num_hidden + num_output = total_num_neurons) =>
       \A c \in 1..Len(connections) :
          /\ connections[c].source_neuron_idx < total_num_neurons
          /\ connections[c].target_neuron_idx < total_num_neurons

\* C3 (as claimed): the recorded connection count is the length of the
\* connection sequence.
C3_RecordedCountIsLength ==
    pc = "ready" => total_num_connections = Len(connections)

\* C4 (as claimed): the three layer counts add up to total_num_neurons,
\* which is the length of the neuron sequence.
C4_CountsAddUp ==
    pc = "ready" =>
       /\ num_input + num_hidden + num_output = total_num_neurons
       /\ Len(neurons) = total_num_neurons

\* C5 (as claimed): GetOutput returns num_output values, the outputs of the
\* neurons num_input + num_hidden .. total_num_neurons - 1 in index order.
C5_OutputLengthIsNumOutput ==
    pc = "ready" =>
       /\ Len(GetOutput) = num_output
       /\ \A k \in 1..num_output :
             /\ num_input + num_hidden + k <= Len(neurons)
             /\ GetOutput[k] = neurons[num_input + num_hidden + k].output

\* C6 (as claimed): after a successful RandomizeWeights(min, max) every
\* weight w has min <= w < max.
C6_WeightBelowMax ==
    (pc = "ready" /\ lastOp.op = "randomizeW" /\ lastOp.rc = 0) =>
       \A c \in 1..Len(connections) :
          /\ lastOp.arg[1] <= connections[c].weight
          /\ connections[c].weight < lastOp.arg[2]

\* C6 (amended): after a successful RandomizeWeights(min, max) every weight
\* w has min <= w <= max.
C6_WeightWithinClosedRange ==
    (pc = "ready" /\ lastOp.op = "randomizeW" /\ lastOp.rc = 0) =>
       \A c \in 1..Len(connections) :
          /\ lastOp.arg[1] <= connections[c].weight
          /\ connections[c].weight <= lastOp.arg[2]

\* a successful RandomizeWeights has left one weight at max and one inside
\* the range
C6_Witness ==
    /\ pc = "ready" /\ lastOp.op = "randomizeW" /\ lastOp.rc = 0
    /\ \E c \in 1..Len(connections) : connections[c].weight = lastOp.arg[2]
    /\ \E c \in 1..Len(connections) :
          /\ lastOp.arg[1] < connections[c].weight
          /\ connections[c].weight < lastOp.arg[2]

\* the counts describe the neuron sequence: the network does have num_input
\* Input, num_hidden Hidden and num_output Output neurons
CountsDescribeStore ==
    /\ num_iPLUSh = num_input + num_hidden
    /\ total_num_neurons = num_iPLUSh + num_output
    /\ Len(neurons) = total_num_neurons

\* C7: FullyConnectFeedforward on a network with I Input, H Hidden and O
\* Output neurons leaves exactly H * (I + O) connections: first one per
\* (Input, Hidden) pair, then one per (Hidden, Output) pair, all of weight 0.
C7_FullyConnected ==
    (pc = "ready" /\ lastOp.op = "fullyConnectFF" /\ CountsDescribeStore) =>
       LET I == num_input
           H == num_hidden
           O == num_output
       IN  /\ Len(connections) = H * (I + O)
           /\ \A i \in 0..(I - 1), h \in I..(I + H - 1) :
                 Cardinality({c \in 1..(I * H) :
                    /\ connections[c].source_neuron_idx = i
                    /\ connections[c].target_neuron_idx = h}) = 1
           /\ \A h \in I..(I + H - 1), o \in (I + H)..(I + H + O - 1) :
                 Cardinality({c \in (I * H + 1)..Len(connections) :
                    /\ connections[c].source_neuron_idx = h
                    /\ connections[c].target_neuron_idx = o}) = 1
           /\ \A c \in 1..Len(connections) : connections[c].weight = 0

\* FullyConnectFeedforward has run on a network with two Input neurons, a
\* Hidden and an Output neuron
C7_Witness ==
    /\ pc = "ready" /\ lastOp.op = "fullyConnectFF" /\ CountsDescribeStore
    /\ num_input = 2 /\ num_hidden = 1 /\ num_output = 1
    /\ Len(connections) = 3

\* C7, the case H = 0: FullyConnectFeedforward has left no connection
C7_WitnessNoHidden ==
    /\ pc = "ready" /\ lastOp.op = "fullyConnectFF" /\ CountsDescribeStore
    /\ num_hidden = 0 /\ num_output = 1 /\ connections = << >>

\* the network has just been read back from the file Serialize wrote, and
\* the network Serialize wrote had as many neurons and connections as its
\* counts recorded
ReadBack ==
    /\ pc = "ready" /\ lastOp.op \in {"deserialize", "constructFromFile"}
    /\ lastOp.rc = 0 /\ lastOp.path = "net"
    /\ saved.taken
    /\ saved.counts[5] = Len(saved.neurons)
    /\ saved.total_num_connections = Len(saved.connections)

\* counts, neuron types and connection ends are those of the network
\* written, and nothing else is left of the receiving network
ReadBackButWeights ==
    /\ counts = saved.counts
    /\ Len(neurons) = Len(saved.neurons)
    /\ \A n \in 1..Len(neurons) :
          neurons[n] = [input_sum |-> 0, output |-> 0,
                        type |-> saved.neurons[n].type]
    /\ total_num_connections = saved.total_num_connections
    /\ Len(connections) = Len(saved.connections)
    /\ \A c \in 1..Len(connections) :
          /\ connections[c].source_neuron_idx
                = saved.connections[c].source_neuron_idx
          /\ connections[c].target_neuron_idx
                = saved.connections[c].target_neuron_idx
          /\ connections[c].data = 0

\* r is w to six significant digits
SixDigitsOf(w, r) ==
    LET u == Pow10(NumDigits(Abs(w)) - 6)
    IN  /\ Abs(r) % u = 0
        /\ 2 * Abs(r - w) <= u
        /\ (u = 1 => r = w)

\* C8 (as claimed): a network read back from the file Serialize wrote has
\* the counts, neuron types and (source, target, weight) triples of the
\* network written.
C8_RoundTripIdentical ==
    ReadBack =>
       /\ ReadBackButWeights
       /\ \A c \in 1..Len(connections) :
             connections[c].weight = saved.connections[c].weight

\* C8 (amended): a network read back from the file Serialize wrote has the
\* counts, neuron types and connection sources and targets of the network
\* written, and each weight to six significant digits.
C8_RoundTripToSixDigits ==
    ReadBack =>
       /\ ReadBackButWeights
       /\ \A c \in 1..Len(connections) :
             SixDigitsOf(saved.connections[c].weight, connections[c].weight)

\* a network with a hidden layer has been read back, one weight came back
\* rounded, and the receiving network had been changed since the write
C8_Witness ==
    /\ ReadBack
    /\ saved.counts[2] > 0
    /\ lastOp.prev # "serialize"
    /\ \E c \in 1..Len(connections) :
          connections[c].weight # saved.connections[c].weight

\* C9: a SetInput with a vector of the wrong length, a RandomizeWeights with
\* min >= max, a Serialize or Deserialize whose file cannot be opened
\* returns -1 and leaves the network as it was; no other call returns -1.
C9_FailedCallsChangeNothing ==
    [][LET op   == lastOp'.op
           arg  == lastOp'.arg
           path == lastOp'.path
           failing ==
              \/ op = "setInput" /\ Len(arg) # num_input
              \/ op = "randomizeW" /\ arg[1] >= arg[2]
              \/ op = "serialize" /\ path \notin {"net", "ext"}
              \/ op = "deserialize"
                 /\ (path \notin {"net", "ext"} \/ ~files[path].open)
       IN  (/\ pc = "ready" /\ pc' = "ready" /\ steps' = steps + 1
            /\ op \in {"setInput", "randomizeW", "serialize", "deserialize"})
           => /\ failing <=> lastOp'.rc = -1
              /\ failing => net' = net /\ files' = files]_vars

\* a Deserialize has failed on a network that holds connections and a
\* neuron output
C9_Witness ==
    /\ pc = "ready" /\ lastOp.op = "deserialize" /\ lastOp.rc = -1
    /\ connections # << >>
    /\ \E n \in 1..Len(neurons) : neurons[n].output # 0

\* the sum of the data of the connections of cs that target neuron n
RECURSIVE DataInto(_, _)
DataInto(cs, n) ==
    IF cs = << >> THEN 0
    ELSE (IF Head(cs).target_neuron_idx = n THEN Head(cs).data ELSE 0)
         + DataInto(Tail(cs), n)

\* C10: an Activate call sets every connection's data to weight times the
\* output its source neuron had before the call, then gives every neuron
\* from index num_input on the output sigmoid(sum of the data of the
\* connections that target it) and input_sum 0; Input neurons' outputs and
\* the connections' sources, targets and weights stay as they were.
C10_ActivateTwoPhase ==
    [][(/\ pc = "ready" /\ pc' = "ready" /\ lastOp'.op = "activate"
        /\ steps' = steps + 1)
       => /\ Len(connections') = Len(connections)
          /\ Len(neurons') = Len(neurons)
          /\ \A c \in 1..Len(connections) :
                /\ connections'[c].source_neuron_idx
                      = connections[c].source_neuron_idx
                /\ connections'[c].target_neuron_idx
                      = connections[c].target_neuron_idx
                /\ connections'[c].weight = connections[c].weight
                /\ connections[c].source_neuron_idx < Len(neurons)
                   => connections'[c].data =
                         MulFix(connections[c].weight,
                                neurons[connections[c].source_neuron_idx + 1]
                                   .output)
          /\ \A n \in 1..Len(neurons) :
                IF n - 1 >= num_input
                THEN /\ neurons'[n].output =
                           sigmoid_AF(DataInto(connections', n - 1))
                     /\ neurons'[n].input_sum = 0
                ELSE neurons'[n].output = neurons[n].output]_vars

\* an Activate has run in which a connection from a Hidden or Output neuron
\* carried a value that is not its weight times the output the source has
\* now: it carried the output of the pass before
C10_Witness ==
    /\ pc = "ready" /\ lastOp.op = "activate"
    /\ \E c \in 1..Len(connections) :
          LET s == connections[c].source_neuron_idx
          IN  /\ s >= num_input /\ s < Len(neurons)
              /\ connections[c].data # 0
              /\ connections[c].data
                    # MulFix(connections[c].weight, neurons[s + 1].output)

\* every connection joins two neurons of the network
EndsExist ==
    \A c \in 1..Len(connections) :
       /\ connections[c].source_neuron_idx < Len(neurons)
       /\ connections[c].target_neuron_idx < Len(neurons)

\* C11 (as claimed): Activate keeps no history: after an Activate call no
\* neuron's input_sum holds a value for the next call (stated here for the
\* networks whose counts describe the neuron sequence and whose connections
\* join neurons of the network).
C11_NoAccumulatorCarries ==
    (/\ pc = "ready" /\ lastOp.op = "activate"
     /\ CountsDescribeStore /\ EndsExist) =>
       \A n \in 1..Len(neurons) : neurons[n].input_sum = 0

\* C11 (amended): an Activate call finds and leaves input_sum 0 in every
\* neuron from index num_input on, and gives each of them the output
\* sigmoid(sum of the data sent to it in this call), where the data of a
\* connection is its weight times the output its source had before the
\* call; an Input neuron keeps its output, and its input_sum grows by the
\* data sent to it in this call and is never reset.
C11_OnlyInputAccumulatorsCarry ==
    [][(/\ pc = "ready" /\ pc' = "ready" /\ lastOp'.op = "activate"
        /\ steps' = steps + 1)
       => /\ \A c \in 1..Len(connections) :
                connections[c].source_neuron_idx < Len(neurons)
                => connections'[c].data =
                      MulFix(connections[c].weight,
                             neurons[connections[c].source_neuron_idx + 1]
                                .output)
          /\ \A n \in 1..Len(neurons) :
                IF n - 1 >= num_input
                THEN /\ neurons[n].input_sum = 0
                     /\ neurons'[n].input_sum = 0
                     /\ neurons'[n].output =
                           sigmoid_AF(DataInto(connections', n - 1))
                ELSE /\ neurons'[n].output = neurons[n].output
                     /\ neurons'[n].input_sum =
                           neurons[n].input_sum
                           + DataInto(connections', n - 1)]_vars

\* two Activate calls in a row have run on a network with an edge into an
\* Input neuron, whose input_sum now holds what both calls sent to it
C11_Witness ==
    /\ pc = "ready" /\ lastOp.op = "activate" /\ lastOp.prev = "activate"
    /\ CountsDescribeStore /\ EndsExist
    /\ \E n \in 1..Len(neurons) :
          /\ n - 1 < num_input
          /\ DataInto(connections, n - 1) # 0
          /\ neurons[n].input_sum = 2 * DataInto(connections, n - 1)

====
